---- MODULE Spec2Model ----
(***************************************************************************)
(* A model of the Idyllic Python Litestar application                      *)
(* (src/src/idyllic_python/main.py) and of the pytest fixture that is      *)
(* meant to give every test a fresh application (src/tests/conftest.py).   *)
(*                                                                         *)
(* UserStorage objects live on a heap and are reached through references,  *)
(* because the handlers of concurrently served requests all hold the       *)
(* object that UserStorageProvider handed them.  The handlers are          *)
(* coroutines without an await in their bodies, and the dependency is      *)
(* provided with sync_to_thread=False: the event loop runs the dependency  *)
(* provider as one step and the handler body as one step, and may switch   *)
(* to another request between the two.                                     *)
(***************************************************************************)
EXTENDS Bags, FiniteSets, Integers, Sequences, TLC

\* ---------------------------------------------------------------- bounds
MaxCreates  == 2    \* successful create_user calls in one behaviour
MaxInFlight == 2    \* requests whose dependency is resolved, handler pending
MaxStores   == 2    \* UserStorage objects constructed in one behaviour

\* ------------------------------------------------------------ input sets
Names    == {"", "Al"}
Emails   == {"", "al@x.io"}
UserIds  == 0 .. (MaxCreates + 1)
HelloNames == {"Alice", "Bob"}

\* A JSON object is a set of <<key, value>> pairs with distinct keys.
Bodies ==
    { {} } \cup
    { {<<"name", n>>} : n \in Names } \cup
    { {<<"email", e>>} : e \in Emails } \cup
    { {<<"name", n>>, <<"email", e>>} : n \in Names, e \in Emails }

HasKey(obj, k) == \E p \in obj : p[1] = k
Field(obj, k)  == (CHOOSE p \in obj : p[1] = k)[2]

\* ------------------------------------------------------- python values
None  == [NoneType |-> TRUE]     \* the value None
NoRef == 0                       \* _instance = None: no object referenced

HTTP_200_OK      == 200
HTTP_201_CREATED == 201
HTTP_400_BAD_REQUEST == 400
HTTP_404_NOT_FOUND   == 404

\* A dict keeps its items in insertion order: a sequence of items.
DictHas(d, k) == \E i \in 1..Len(d) : d[i].key = k
DictGet(d, k) ==
    IF DictHas(d, k)
    THEN d[CHOOSE i \in 1..Len(d) : d[i].key = k].value
    ELSE None
DictSet(d, k, v) ==
    IF DictHas(d, k)
    THEN [i \in 1..Len(d) |-> IF d[i].key = k THEN [key |-> k, value |-> v] ELSE d[i]]
    ELSE Append(d, [key |-> k, value |-> v])
DictKeys(d)   == [i \in 1..Len(d) |-> d[i].key]
DictValues(d) == [i \in 1..Len(d) |-> d[i].value]

\* ------------------------------------------------------------ the state
VARIABLES
    heap,             \* the UserStorage objects ever constructed, by reference
    _instance,        \* UserStorageProvider._instance: NoRef or a reference
    in_flight,        \* bag of requests whose user_storage is resolved
    last,             \* the most recent request/response exchange
    returned,         \* per UserStorage: the ids create_user returned, in order
    answered,         \* the 201 responses sent, in order, with their store
    fixture_outcome   \* what the last run of the app fixture produced

vars == <<heap, _instance, in_flight, last, returned, answered, fixture_outcome>>

\* ---------------------------------------------------------- UserStorage
UserStorage_init == [users_db |-> <<>>, next_user_id |-> 1]

get_all_users_reversed(self) ==
    LET v == DictValues(self.users_db)
    IN  [i \in 1..Len(v) |-> v[Len(v) + 1 - i]]

get_all_users(self) == DictValues(self.users_db)

UserStorage_get_user(self, user_id) == DictGet(self.users_db, user_id)

create_user_no_increment(self, name, email) ==
    LET user_data == [id |-> self.next_user_id, name |-> name, email |-> email]
    IN  [self |-> [self EXCEPT !.users_db = DictSet(@, self.next_user_id, user_data)],
         ret  |-> user_data]

create_user_increment_first(self, name, email) ==
    LET user_data == [id |-> self.next_user_id, name |-> name, email |-> email]
        bumped    == [self EXCEPT !.next_user_id = @ + 1]
    IN  [self |-> [bumped EXCEPT !.users_db = DictSet(@, bumped.next_user_id, user_data)],
         ret  |-> user_data]

UserStorage_create_user(self, name, email) ==
    LET user_data == [id |-> self.next_user_id, name |-> name, email |-> email]
        stored    == [self EXCEPT !.users_db = DictSet(@, self.next_user_id, user_data)]
    IN  [self |-> [stored EXCEPT !.next_user_id = @ + 1],
         ret  |-> user_data]

\* --------------------------------------------------- UserStorageProvider
get_instance_uncached(h, inst) ==
    [heap |-> Append(h, UserStorage_init), ref |-> Len(h) + 1]

get_instance(h, inst) ==
    IF inst = NoRef
    THEN [heap |-> Append(h, UserStorage_init), ref |-> Len(h) + 1]
    ELSE [heap |-> h, ref |-> inst]

get_user_storage(h, inst) == get_instance(h, inst)

reset_instance_effect(inst) == NoRef

\* ------------------------------------------------------- request models
\* UserCreateRequest(BaseModel): name: str, email: str -- both required,
\* any str accepted.
UserCreateRequest_valid_nonempty(data) ==
    /\ HasKey(data, "name")  /\ Field(data, "name") # ""
    /\ HasKey(data, "email") /\ Field(data, "email") # ""

UserCreateRequest_valid(data) == HasKey(data, "name") /\ HasKey(data, "email")

UserCreateRequest(data) == [name |-> Field(data, "name"), email |-> Field(data, "email")]

UserResponse(user_data) ==
    [id |-> user_data.id, name |-> user_data.name, email |-> user_data.email]

HealthResponse == [status |-> "healthy", message |-> "Service is running"]

\* ------------------------------------------------------------- requests
Request(route, user_id, name, data) ==
    [route |-> route, user_id |-> user_id, name |-> name, data |-> data]

StoreRequests ==
    { Request("GET /users", 0, "", {}) } \cup
    { Request("GET /users/{user_id}", i, "", {}) : i \in UserIds } \cup
    { Request("POST /users", 0, "", d) : d \in Bodies }

NoExchange ==
    [req |-> Request("", 0, "", {}), store |-> NoRef, ver |-> 0,
     resp |-> [status_code |-> 0, body |-> [message |-> ""]]]

Exchange(req, store, ver, resp) ==
    [req |-> req, store |-> store, ver |-> ver, resp |-> resp]

\* ------------------------------------------------- handlers, as functions
health_check_response == [status_code |-> HTTP_200_OK, body |-> HealthResponse]

root_response ==
    [status_code |-> HTTP_200_OK, body |-> [message |-> "Welcome to Idyllic Python API!"]]

hello_name_response(name) ==
    [status_code |-> HTTP_200_OK, body |-> [message |-> "Hello, " \o name \o "!"]]

get_users_response(user_storage) ==
    [status_code |-> HTTP_200_OK, body |-> [users |-> get_all_users(user_storage)]]

NotFoundException(detail) ==
    [status_code |-> HTTP_404_NOT_FOUND,
     body |-> [status_code |-> HTTP_404_NOT_FOUND, detail |-> detail]]

get_user_response_wrong_id(user_id, user_storage) ==
    LET user_data == UserStorage_get_user(user_storage, user_id)
    IN  IF user_data = None
        THEN NotFoundException("User with ID " \o ToString(user_storage.next_user_id)
                               \o " not found")
        ELSE [status_code |-> HTTP_200_OK, body |-> UserResponse(user_data)]

get_user_response(user_id, user_storage) ==
    LET user_data == UserStorage_get_user(user_storage, user_id)
    IN  IF user_data = None
        THEN NotFoundException("User with ID " \o ToString(user_id) \o " not found")
        ELSE [status_code |-> HTTP_200_OK, body |-> UserResponse(user_data)]

ValidationException ==
    [status_code |-> HTTP_400_BAD_REQUEST,
     body |-> [status_code |-> HTTP_400_BAD_REQUEST]]

create_user_response_counter_id(data, user_storage) ==
    IF ~UserCreateRequest_valid(data)
    THEN [self |-> user_storage, user_data |-> None, resp |-> ValidationException]
    ELSE LET request == UserCreateRequest(data)
             out == UserStorage_create_user(user_storage, request.name, request.email)
         IN  [self |-> out.self,
              user_data |-> out.ret,
              resp |-> [status_code |-> HTTP_201_CREATED,
                        body |-> [id    |-> out.self.next_user_id,
                                  name  |-> out.ret.name,
                                  email |-> out.ret.email]]]

create_user_response_store_first(data, user_storage) ==
    LET name  == IF HasKey(data, "name") THEN Field(data, "name") ELSE ""
        email == IF HasKey(data, "email") THEN Field(data, "email") ELSE ""
        out   == UserStorage_create_user(user_storage, name, email)
    IN  IF ~UserCreateRequest_valid(data)
        THEN [self |-> out.self, user_data |-> None, resp |-> ValidationException]
        ELSE [self |-> out.self,
              user_data |-> out.ret,
              resp |-> [status_code |-> HTTP_201_CREATED,
                        body |-> [id    |-> out.ret.id,
                                  name  |-> out.ret.name,
                                  email |-> out.ret.email]]]

\* The POST handler: the signature model validates `data` first; the body
\* runs only on a valid UserCreateRequest.  Result: the store after the
\* call, what UserStorage.create_user returned (None if not called), and
\* the response.
create_user_response(data, user_storage) ==
    IF ~UserCreateRequest_valid(data)
    THEN [self |-> user_storage, user_data |-> None, resp |-> ValidationException]
    ELSE LET request == UserCreateRequest(data)
             out == UserStorage_create_user(user_storage, request.name, request.email)
         IN  [self |-> out.self,
              user_data |-> out.ret,
              resp |-> [status_code |-> HTTP_201_CREATED,
                        body |-> [id    |-> out.ret.id,
                                  name  |-> out.ret.name,
                                  email |-> out.ret.email]]]

\* -------------------------------------------------------------- actions
Init ==
    /\ heap = <<>>
    /\ _instance = NoRef
    /\ in_flight = EmptyBag
    /\ last = NoExchange
    /\ returned = <<>>
    /\ answered = <<>>
    /\ fixture_outcome = "not run"

Pending == BagToSet(in_flight)
Take(r) == in_flight (-) SetToBag({r})

health_check ==
    /\ last' = Exchange(Request("GET /health", 0, "", {}), NoRef, 0, health_check_response)
    /\ UNCHANGED <<heap, _instance, in_flight, returned, answered, fixture_outcome>>

root ==
    /\ last' = Exchange(Request("GET /", 0, "", {}), NoRef, 0, root_response)
    /\ UNCHANGED <<heap, _instance, in_flight, returned, answered, fixture_outcome>>

hello_name ==
    \E name \in HelloNames :
        /\ last' = Exchange(Request("GET /hello/{name}", 0, name, {}), NoRef, 0,
                            hello_name_response(name))
        /\ UNCHANGED <<heap, _instance, in_flight, returned, answered, fixture_outcome>>

\* Litestar resolves the handler's user_storage dependency by calling
\* get_user_storage() on the event loop; the request then waits for its
\* handler to be run.
Provide_user_storage(req) ==
    LET got == get_user_storage(heap, _instance) IN
    /\ BagCardinality(in_flight) < MaxInFlight
    /\ Len(got.heap) <= MaxStores
    /\ heap' = got.heap
    /\ _instance' = got.ref
    /\ returned' = IF Len(got.heap) > Len(heap) THEN Append(returned, <<>>) ELSE returned
    /\ in_flight' = in_flight (+) SetToBag({[req |-> req, store |-> got.ref]})
    /\ UNCHANGED <<last, answered, fixture_outcome>>

get_users(r) ==
    /\ r \in Pending
    /\ r.req.route = "GET /users"
    /\ in_flight' = Take(r)
    /\ last' = Exchange(r.req, r.store, Len(returned[r.store]),
                        get_users_response(heap[r.store]))
    /\ UNCHANGED <<heap, _instance, returned, answered, fixture_outcome>>

get_user_and_pop(r) ==
    /\ r \in Pending
    /\ r.req.route = "GET /users/{user_id}"
    /\ in_flight' = Take(r)
    /\ last' = Exchange(r.req, r.store, Len(returned[r.store]),
                        get_user_response(r.req.user_id, heap[r.store]))
    /\ heap' = [heap EXCEPT ![r.store].users_db =
                   SelectSeq(@, LAMBDA item : item.key # r.req.user_id)]
    /\ UNCHANGED <<_instance, returned, answered, fixture_outcome>>

get_user(r) ==
    /\ r \in Pending
    /\ r.req.route = "GET /users/{user_id}"
    /\ in_flight' = Take(r)
    /\ last' = Exchange(r.req, r.store, Len(returned[r.store]),
                        get_user_response(r.req.user_id, heap[r.store]))
    /\ UNCHANGED <<heap, _instance, returned, answered, fixture_outcome>>

create_user(r) ==
    LET out == create_user_response(r.req.data, heap[r.store]) IN
    /\ r \in Pending
    /\ r.req.route = "POST /users"
    /\ out.user_data # None => Len(answered) < MaxCreates
    /\ in_flight' = Take(r)
    /\ heap' = [heap EXCEPT ![r.store] = out.self]
    /\ returned' = IF out.user_data # None
                   THEN [returned EXCEPT ![r.store] = Append(@, out.user_data.id)]
                   ELSE returned
    /\ answered' = IF out.resp.status_code = HTTP_201_CREATED
                   THEN Append(answered, [store |-> r.store, body |-> out.resp.body])
                   ELSE answered
    /\ last' = Exchange(r.req, r.store, Len(returned'[r.store]), out.resp)
    /\ UNCHANGED <<_instance, fixture_outcome>>

reset_instance ==
    /\ Len(heap) < MaxStores
    /\ _instance' = reset_instance_effect(_instance)
    /\ UNCHANGED <<heap, in_flight, last, returned, answered, fixture_outcome>>

\* The top-level names that importing idyllic_python.main binds.
main_module_names ==
    {"Any", "Dict", "Litestar", "get", "post", "Provide", "NotFoundException",
     "HTTP_200_OK", "HTTP_201_CREATED", "BaseModel", "HealthResponse",
     "UserCreateRequest", "UserResponse", "UserStorage", "UserStorageProvider",
     "get_user_storage", "health_check", "root", "hello_name", "get_users",
     "get_user", "create_user", "create_app", "app"}

\* The pytest fixture `app`: `from idyllic_python.main import users_db` raises
\* ImportError unless the module binds that name; past it, the fixture clears
\* and rebinds module globals (no part of any UserStorage) and returns
\* create_app(), whose handlers get their store from get_user_storage().
app_fixture ==
    /\ fixture_outcome' = IF "users_db" \in main_module_names
                          THEN "app" ELSE "ImportError"
    /\ UNCHANGED <<heap, _instance, in_flight, last, returned, answered>>

\* The synchronous TestClient sends a request only after the previous
\* response has arrived.
TestClient_request(req) ==
    /\ in_flight = EmptyBag
    /\ Provide_user_storage(req)

\* ------------------------------------------------------- specifications
\* The served application: requests are handled concurrently on one event
\* loop; nothing resets the provider.
Next ==
    \/ health_check
    \/ root
    \/ hello_name
    \/ \E req \in StoreRequests : Provide_user_storage(req)
    \/ \E r \in Pending : get_users(r)
    \/ \E r \in Pending : get_user(r)
    \/ \E r \in Pending : create_user(r)

Spec == Init /\ [][Next]_vars

\* The test process: fixture runs, provider resets and sequential requests.
NextHarness ==
    \/ health_check
    \/ root
    \/ hello_name
    \/ \E req \in StoreRequests : TestClient_request(req)
    \/ \E r \in Pending : get_users(r)
    \/ \E r \in Pending : get_user(r)
    \/ \E r \in Pending : create_user(r)
    \/ reset_instance
    \/ app_fixture

SpecHarness == Init /\ [][NextHarness]_vars

\* ================================================================ claims
Stores == 1 .. Len(heap)

\* The Store the next request would be handed: the provider's instance, or
\* the fresh UserStorage it would construct.
View == IF _instance = NoRef THEN UserStorage_init ELSE heap[_instance]

IsPost(req)  == req.route = "POST /users"
ValidPost(req) == IsPost(req) /\ HasKey(req.data, "name") /\ HasKey(req.data, "email")

\* The requests a step hands their store, and those whose handler it runs.
Provided == {r \in BagToSet(in_flight') : CopiesIn(r, in_flight') > CopiesIn(r, in_flight)}
Handled  == {r \in Pending : CopiesIn(r, in_flight') < CopiesIn(r, in_flight)}

\* The 201 bodies answered from store s, in the order they were sent.
AnsweredOn(s) ==
    LET OnS(a) == a.store = s
        sel == SelectSeq(answered, OnS)
    IN  [i \in 1..Len(sel) |-> sel[i].body]

\* C1: in each UserStorage the first create_user returns id 1, every later
\* create_user returns an id strictly greater than every id that store
\* returned before, and next_user_id never decreases.
C1_IdsStrictlyIncreasing ==
    [][\A s \in Stores :
          /\ heap'[s].next_user_id >= heap[s].next_user_id
          /\ returned'[s] # returned[s] =>
                LET new == returned'[s][Len(returned'[s])] IN
                /\ returned'[s] = Append(returned[s], new)
                /\ Len(returned[s]) = 0 => new = 1
                /\ \A j \in 1..Len(returned[s]) : new > returned[s][j]]_vars

C1_Witness ==
    \E s \in Stores : Len(returned[s]) >= 2 /\ heap[s].next_user_id = 3

\* C10: in every UserStorage the keys of users_db are exactly
\* 1 .. next_user_id - 1, in that order and without gaps, the record under
\* key k has id k, and the number of users is next_user_id - 1.
C10_DenseKeys ==
    \A s \in Stores :
        LET db == heap[s].users_db IN
        /\ Len(db) = heap[s].next_user_id - 1
        /\ {db[i].key : i \in 1..Len(db)} = 1 .. (heap[s].next_user_id - 1)
        /\ \A i \in 1..Len(db) : db[i].value.id = db[i].key

C10_Witness ==
    /\ Len(heap) = 2
    /\ Len(heap[1].users_db) = 1
    /\ Len(heap[2].users_db) = 1
    /\ heap[2].next_user_id = 2

\* C2: every user a POST /users answered 201 with (i, n, e) stays
\* retrievable while the provider keeps that store: GET /users/i answers 200
\* with exactly (i, n, e), and GET /users holds exactly one entry with id i,
\* which carries n and e.
C2_CreatedUserRetrievable ==
    \A k \in 1..Len(answered) :
        LET a == answered[k] IN
        a.store = _instance =>
            LET one == get_user_response(a.body.id, heap[_instance])
                all == get_users_response(heap[_instance]).body.users
                hit == {i \in 1..Len(all) : all[i].id = a.body.id}
            IN  /\ one.status_code = 200
                /\ one.body = a.body
                /\ Cardinality(hit) = 1
                /\ \A i \in hit : all[i].name = a.body.name /\ all[i].email = a.body.email

C2_Witness ==
    /\ Len(answered) = 2
    /\ answered[1].store = _instance
    /\ answered[2].store = _instance
    /\ answered[1].body.name # answered[2].body.name
    /\ last.req.route = "GET /users/{user_id}"
    /\ last.req.user_id = 1
    /\ last.store = _instance
    /\ last.ver = 2
    /\ last.resp = [status_code |-> 200, body |-> answered[1].body]

\* C3: however the POST /users requests interleave on the event loop -- also
\* those that find the provider without an instance -- there is one
\* UserStorage, every pending request holds it, the ids answered are
\* strictly increasing in the order of the store writes (hence distinct),
\* every answered record is still stored unchanged under its id, and the
\* store holds as many users as POSTs were answered 201.
C3_ConcurrentCreatesDistinct ==
    /\ Len(heap) <= 1
    /\ \A r \in Pending : r.store = _instance
    /\ \A k, l \in 1..Len(answered) :
          k < l => answered[k].body.id < answered[l].body.id
    /\ \A k \in 1..Len(answered) :
          DictGet(heap[answered[k].store].users_db, answered[k].body.id)
              = answered[k].body
    /\ \A s \in Stores : Len(heap[s].users_db) = Len(AnsweredOn(s))

\* One POST has been answered 201 while an identical POST, which was handed
\* the same store, is still waiting for its handler.
C3_Witness ==
    /\ Len(answered) = 1
    /\ IsPost(last.req) /\ last.resp.status_code = 201
    /\ \E r \in Pending :
          /\ r.req = last.req
          /\ r.store = last.store
          /\ BagCardinality(in_flight) = 1

\* C4: a POST /users whose body lacks name or email is answered 400, and
\* neither providing its store nor running its handler changes the Store:
\* the users and next_user_id a later request finds are the same as before.
C4_MissingFieldRejected ==
    [][/\ \A r \in Provided :
             (IsPost(r.req) /\ ~ValidPost(r.req)) => View' = View
       /\ \A r \in Handled :
             (IsPost(r.req) /\ ~ValidPost(r.req))
                 => /\ last'.req = r.req
                    /\ last'.resp.status_code = 400
                    /\ heap' = heap
                    /\ View' = View
                    /\ returned' = returned
                    /\ answered' = answered]_vars

C4_Witness ==
    /\ IsPost(last.req)
    /\ ~HasKey(last.req.data, "email")
    /\ HasKey(last.req.data, "name")
    /\ last.resp.status_code = 400
    /\ last.store = _instance
    /\ Len(heap[last.store].users_db) = 1
    /\ heap[last.store].next_user_id = 2

C6_GetUserNotFound ==
    [][\A r \in Handled :
          r.req.route = "GET /users/{user_id}" =>
              LET id == r.req.user_id
                  created == \E j \in 1..Len(returned[r.store]) : returned[r.store][j] = id
              IN  /\ heap' = heap
                  /\ _instance' = _instance
                  /\ returned' = returned
                  /\ last'.req = r.req
                  /\ created  => /\ last'.resp.status_code = 200
                                 /\ last'.resp.body.id = id
                  /\ ~created => /\ last'.resp.status_code = 404
                                 /\ last'.resp.body.detail
                                       = "User with ID " \o ToString(id) \o " not found"
                                 /\ id = 3 => last'.resp.body.detail
                                                  = "User with ID 3 not found"]_vars

C6_Witness ==
    /\ last.req.route = "GET /users/{user_id}"
    /\ last.req.user_id = 3
    /\ Len(returned[last.store]) = 2
    /\ last.resp.status_code = 404
    /\ last.resp.body.detail = "User with ID 3 not found"

\* C7 as claimed: a run of the app fixture leaves the application with an
\* empty user store whose next id is 1, whatever was created before.
C7_FixtureGivesFreshStore ==
    [][app_fixture => View' = UserStorage_init]_vars

\* C8: GET /users is answered 200 with exactly the users created in the
\* store it reads, each once, in the order of their creation, which is the
\* order of increasing id; with no user created the list is empty.
C8_ListInCreationOrder ==
    last.req.route = "GET /users" =>
        LET users == last.resp.body.users
            made  == AnsweredOn(last.store)
        IN  /\ last.resp.status_code = 200
            /\ Len(users) = last.ver
            /\ last.ver <= Len(made)
            /\ \A i \in 1..Len(users) : users[i] = made[i]
            /\ \A i, j \in 1..Len(users) : i < j => users[i].id < users[j].id

C8_Witness ==
    /\ last.req.route = "GET /users"
    /\ last.ver = 2
    /\ last.resp.body.users =
          << [id |-> 1, name |-> "Al", email |-> ""],
             [id |-> 2, name |-> "", email |-> "al@x.io"] >>

\* C9: no step that answers a GET changes a UserStorage or the provider, having
\* the store provided for a GET request leaves the Store as the next request
\* finds it, and a GET answered right after the same GET on the same store,
\* with no create in between, gets the identical response.
IsGet(req) ==
    req.route \in {"GET /health", "GET /", "GET /hello/{name}", "GET /users",
                   "GET /users/{user_id}"}

C9_GetsLeaveStoreUnchanged ==
    [][/\ (last' # last /\ IsGet(last'.req))
             => /\ heap' = heap
                /\ _instance' = _instance
       /\ \A r \in Handled :
             IsGet(r.req) => /\ heap' = heap
                             /\ _instance' = _instance
                             /\ last'.req = r.req
       /\ \A r \in Provided : IsGet(r.req) => View' = View
       /\ (/\ Handled # {}
           /\ IsGet(last'.req)
           /\ last'.req = last.req
           /\ last'.store = last.store
           /\ last'.ver = last.ver)
             => last'.resp = last.resp]_vars

C9_Witness ==
    /\ last.req.route = "GET /users/{user_id}"
    /\ last.req.user_id = 1
    /\ last.resp.status_code = 200
    /\ [req |-> last.req, store |-> last.store] \in Pending

====
